---- MODULE Spec2Model ----
(***************************************************************************)
(* Model of trl/trainer/adpo_config.py: the ADPOConfig dataclass, a flat   *)
(* set of defaulted fields layered on the inherited GRPOConfig.            *)
(*                                                                         *)
(* Float fields are carried as integers in hundredths (0.8 is 80, 0.99 is  *)
(* 99, 0.05 is 5), so every default of the source is represented exactly.  *)
(***************************************************************************)
EXTENDS Integers, FiniteSets, TLC

VARIABLES pc, cfg, out

vars == <<pc, cfg, out>>

\* Number of equal steps into which the entropy ratio H/H_max in [0,1] is cut.
RatioSteps == 4

\* ---------------------------------------------------------------- fields

\* The fields ADPOConfig declares, in declaration order.
ADPOFieldNames ==
    { "tau", "anchor_update_mode", "ema_alpha", "kl_threshold",
      "use_q_centering", "beta_anchor_kl", "use_adaptive_tau",
      "adaptive_tau_alpha", "adaptive_tau_min", "beta_reward",
      "drop_all_failed_prompts" }

\* The values the annotation of anchor_update_mode lists.
AnchorUpdateModes == { "fixed", "ema", "kl_triggered", "on_policy" }

\* A mutant of the defaults: adaptive_tau_alpha = 1.0.
ADPODefaults_AlphaOne ==
    [ tau |-> 80, anchor_update_mode |-> "on_policy", ema_alpha |-> 99,
      kl_threshold |-> 10, use_q_centering |-> TRUE, beta_anchor_kl |-> 0,
      use_adaptive_tau |-> TRUE, adaptive_tau_alpha |-> 100,
      adaptive_tau_min |-> 5, beta_reward |-> 50,
      drop_all_failed_prompts |-> FALSE ]

\* A mutant of the defaults: anchor_update_mode = "fixed".
ADPODefaults_FixedAnchor ==
    [ tau |-> 80, anchor_update_mode |-> "fixed", ema_alpha |-> 99,
      kl_threshold |-> 10, use_q_centering |-> TRUE, beta_anchor_kl |-> 0,
      use_adaptive_tau |-> TRUE, adaptive_tau_alpha |-> 50,
      adaptive_tau_min |-> 5, beta_reward |-> 50,
      drop_all_failed_prompts |-> FALSE ]

\* A mutant of the defaults: ema_alpha = 0.9.
ADPODefaults_EmaNine ==
    [ tau |-> 80, anchor_update_mode |-> "on_policy", ema_alpha |-> 90,
      kl_threshold |-> 10, use_q_centering |-> TRUE, beta_anchor_kl |-> 0,
      use_adaptive_tau |-> TRUE, adaptive_tau_alpha |-> 50,
      adaptive_tau_min |-> 5, beta_reward |-> 50,
      drop_all_failed_prompts |-> FALSE ]

\* A mutant of the defaults: drop_all_failed_prompts = True.
ADPODefaults_DropFailed ==
    [ tau |-> 80, anchor_update_mode |-> "on_policy", ema_alpha |-> 99,
      kl_threshold |-> 10, use_q_centering |-> TRUE, beta_anchor_kl |-> 0,
      use_adaptive_tau |-> TRUE, adaptive_tau_alpha |-> 50,
      adaptive_tau_min |-> 5, beta_reward |-> 50,
      drop_all_failed_prompts |-> TRUE ]

\* A mutant of the defaults: use_adaptive_tau = False.
ADPODefaults_AdaptiveOff ==
    [ tau |-> 80, anchor_update_mode |-> "on_policy", ema_alpha |-> 99,
      kl_threshold |-> 10, use_q_centering |-> TRUE, beta_anchor_kl |-> 0,
      use_adaptive_tau |-> FALSE, adaptive_tau_alpha |-> 50,
      adaptive_tau_min |-> 5, beta_reward |-> 50,
      drop_all_failed_prompts |-> FALSE ]

\* The default= of every field declaration, floats in hundredths.
ADPODefaults ==
    [ tau |-> 80, anchor_update_mode |-> "on_policy", ema_alpha |-> 99,
      kl_threshold |-> 10, use_q_centering |-> TRUE, beta_anchor_kl |-> 0,
      use_adaptive_tau |-> TRUE, adaptive_tau_alpha |-> 50,
      adaptive_tau_min |-> 5, beta_reward |-> 50,
      drop_all_failed_prompts |-> FALSE ]

\* The inherited configuration, reduced to the one inherited field the
\* docstring of ADPOConfig discusses (beta, the KL weight against ref_model).
GRPOFieldNames == { "beta" }

GRPODefaults == [ beta |-> 0 ]

\* GRPOConfig(**kw): every inherited field takes its keyword or its default.
GRPOConfigInit(kw) ==
    [ f \in GRPOFieldNames |->
        IF f \in DOMAIN kw THEN kw[f] ELSE GRPODefaults[f] ]

\* Keywords that name no field of ADPOConfig or of its base.
UnknownNames == { "adaptive_tau_beta", "adaptive_tau_max" }

FieldNames == ADPOFieldNames \cup GRPOFieldNames

KwNames == FieldNames \cup UnknownNames

\* The keyword values a caller supplies, per name: for the floats the
\* documented tau and values outside the range the help text has in mind
\* (tau <= 0, ema_alpha > 1, kl_threshold < 0, beta_reward <= 0,
\* adaptive_tau_min > tau).
KwVals ==
    [ tau |-> { -50, 100 },
      anchor_update_mode |-> AnchorUpdateModes \cup { "bogus" },
      ema_alpha |-> { 150 },
      kl_threshold |-> { -10 },
      use_q_centering |-> BOOLEAN,
      beta_anchor_kl |-> { 10 },
      use_adaptive_tau |-> BOOLEAN,
      adaptive_tau_alpha |-> { 100 },
      adaptive_tau_min |-> { 200 },
      beta_reward |-> { 0 },
      drop_all_failed_prompts |-> BOOLEAN,
      beta |-> { 4 },
      adaptive_tau_beta |-> { 30 },
      adaptive_tau_max |-> { 500 } ]

\* One value for every keyword name.
KwRecords ==
    [ tau : KwVals.tau,
      anchor_update_mode : KwVals.anchor_update_mode,
      ema_alpha : KwVals.ema_alpha,
      kl_threshold : KwVals.kl_threshold,
      use_q_centering : KwVals.use_q_centering,
      beta_anchor_kl : KwVals.beta_anchor_kl,
      use_adaptive_tau : KwVals.use_adaptive_tau,
      adaptive_tau_alpha : KwVals.adaptive_tau_alpha,
      adaptive_tau_min : KwVals.adaptive_tau_min,
      beta_reward : KwVals.beta_reward,
      drop_all_failed_prompts : KwVals.drop_all_failed_prompts,
      beta : KwVals.beta,
      adaptive_tau_beta : KwVals.adaptive_tau_beta,
      adaptive_tau_max : KwVals.adaptive_tau_max ]

\* ---------------------------------------------------------- construction

\* A mutant: a __post_init__ that rejects a non-positive temperature.
ADPOConfigRaises_TauChecked(kw) ==
    IF ~ (DOMAIN kw \subseteq FieldNames) THEN "TypeError"
    ELSE IF "tau" \in DOMAIN kw /\ kw["tau"] <= 0 THEN "ValueError"
    ELSE "none"

\* The exception the dataclass-generated __init__ raises for keywords kw:
\* a keyword that names no field is a TypeError, nothing else is looked at.
ADPOConfigRaises(kw) ==
    IF ~ (DOMAIN kw \subseteq FieldNames) THEN "TypeError" ELSE "none"

\* A mutant: the tau keyword is dropped and the default stored instead.
ADPOConfigInit_TauIgnored(kw) ==
    [ f \in ADPOFieldNames |->
        IF f \in DOMAIN kw /\ f # "tau" THEN kw[f] ELSE ADPODefaults[f] ]
    @@ GRPOConfigInit(kw)

\* The object the generated __init__ builds: the inherited fields as the base
\* builds them, then every declared field from its keyword or its default.
ADPOConfigInit(kw) ==
    [ f \in ADPOFieldNames |->
        IF f \in DOMAIN kw THEN kw[f] ELSE ADPODefaults[f] ]
    @@ GRPOConfigInit(kw)

NoFields == [ f \in {} |-> 0 ]

Init ==
    /\ pc = "new"
    /\ cfg = NoFields
    /\ out = [ op |-> "none" ]

\* config = ADPOConfig(**kw)
Construct ==
    /\ pc = "new"
    /\ \E S \in SUBSET KwNames : \E full \in KwRecords :
         LET kw == [ f \in S |-> full[f] ]
             exc == ADPOConfigRaises(kw)
         IN IF exc = "none"
            THEN /\ pc' = "ready"
                 /\ cfg' = ADPOConfigInit(kw)
                 /\ out' = [ op |-> "construct", kw |-> kw ]
            ELSE /\ pc' = "failed"
                 /\ cfg' = cfg
                 /\ out' = [ op |-> "raise", exc |-> exc, kw |-> kw ]

\* ------------------------------------------------------- read and assign

\* getattr(config, f)
Read ==
    /\ pc = "ready"
    /\ \E f \in KwNames :
         out' = IF f \in DOMAIN cfg
                THEN [ op |-> "read", field |-> f, value |-> cfg[f] ]
                ELSE [ op |-> "AttributeError", field |-> f ]
    /\ UNCHANGED <<pc, cfg>>

\* A mutant: assigning tau also re-derives adaptive_tau_min from it.
SetAttr_Derived(c, f, v) ==
    [ g \in DOMAIN c |->
        IF g = f THEN v
        ELSE IF f = "tau" /\ g = "adaptive_tau_min" THEN 0
        ELSE c[g] ]

\* setattr(config, f, v) on a plain (not frozen) dataclass instance.
SetAttr(c, f, v) == [ c EXCEPT ![f] = v ]

\* config.f = v, for a field f and a value of the kind callers pass for it
\* or the value the field has in a configuration built without keywords.
Assign ==
    /\ pc = "ready"
    /\ \E f \in FieldNames :
         \E v \in KwVals[f] \cup { ADPOConfigInit(NoFields)[f] } :
            /\ cfg' = SetAttr(cfg, f, v)
            /\ out' = [ op |-> "assign", field |-> f, value |-> v ]
    /\ UNCHANGED pc

\* ----------------------------------------------------- adaptive temperature

\* Formula of the adaptive_tau_alpha help text, tau * (1 - alpha * H/H_max),
\* at H/H_max = k/n, as the numerator of a fraction over 10000 * n.
AdaptiveTauRaw(c, k, n) == c.tau * (100 * n - c.adaptive_tau_alpha * k)

\* adaptive_tau_min in the same units.
AdaptiveTauFloor(c, n) == c.adaptive_tau_min * 100 * n

\* The minimum clamp the adaptive_tau_min help text describes.
AdaptiveTauClamped(c, k, n) ==
    IF AdaptiveTauRaw(c, k, n) < AdaptiveTauFloor(c, n)
    THEN AdaptiveTauFloor(c, n)
    ELSE AdaptiveTauRaw(c, k, n)

\* The consumer evaluates the adaptive temperature at entropy ratio k/RatioSteps.
AdaptiveTau ==
    /\ pc = "ready"
    /\ cfg.use_adaptive_tau
    /\ \E k \in 0 .. RatioSteps :
         out' = [ op |-> "adaptive_tau", k |-> k,
                  raw |-> AdaptiveTauRaw(cfg, k, RatioSteps),
                  clamped |-> AdaptiveTauClamped(cfg, k, RatioSteps) ]
    /\ UNCHANGED <<pc, cfg>>

Next == Construct \/ Read \/ Assign \/ AdaptiveTau

Spec == Init /\ [][Next]_vars

\* ------------------------------------------------------------ properties

\* The keywords of the last construction call name fields only.
KnownCall == out.op \in { "construct", "raise" } /\ DOMAIN out.kw \subseteq FieldNames

\* C1: a configuration constructed without a tau keyword has tau = 1.0.
C1_TauDefaultIsOne ==
    (out.op = "construct" /\ "tau" \notin DOMAIN out.kw) => cfg.tau = 100

\* C2: construction with one of the four listed anchor_update_mode values
\* succeeds and stores it, and no constructed configuration holds any
\* other value.
C2_AnchorModeRestricted ==
    /\ ( KnownCall /\ "anchor_update_mode" \in DOMAIN out.kw
           /\ out.kw.anchor_update_mode \in AnchorUpdateModes )
         => ( out.op = "construct"
              /\ cfg.anchor_update_mode = out.kw.anchor_update_mode )
    /\ out.op = "construct" => cfg.anchor_update_mode \in AnchorUpdateModes

\* C3: for every subset of fields given as keywords construction succeeds,
\* the configuration has every field, each ADPO field holds its keyword if
\* given and its default otherwise, and each inherited field holds what the
\* base configuration built from the same base keywords holds.
C3_SubsetOfOverrides ==
    KnownCall =>
      /\ out.op = "construct"
      /\ DOMAIN cfg = FieldNames
      /\ \A f \in ADPOFieldNames :
           cfg[f] = IF f \in DOMAIN out.kw THEN out.kw[f] ELSE ADPODefaults[f]
      /\ LET basekw == [ f \in DOMAIN out.kw \cap GRPOFieldNames |-> out.kw[f] ]
         IN \A f \in GRPOFieldNames : cfg[f] = GRPOConfigInit(basekw)[f]

C3_Witness ==
    /\ out.op = "construct"
    /\ DOMAIN out.kw = { "tau", "ema_alpha", "beta" }
    /\ cfg.tau = 100 /\ cfg.ema_alpha = 150 /\ cfg.beta = 4
    /\ cfg.kl_threshold = 10 /\ cfg.anchor_update_mode = "on_policy"

\* C4: a configuration constructed without an anchor_update_mode keyword
\* has anchor_update_mode = "on_policy".
C4_AnchorModeDefault ==
    (out.op = "construct" /\ "anchor_update_mode" \notin DOMAIN out.kw)
      => cfg.anchor_update_mode = "on_policy"

C4_Witness ==
    /\ out.op = "construct"
    /\ "anchor_update_mode" \notin DOMAIN out.kw
    /\ "ema_alpha" \in DOMAIN out.kw
    /\ cfg.anchor_update_mode = "on_policy"

AnchorFields == { "ema_alpha", "kl_threshold", "use_q_centering", "beta_anchor_kl" }

\* C5: a configuration constructed with no keyword for the anchor fields
\* has ema_alpha = 0.99, kl_threshold = 0.1, use_q_centering = True and
\* beta_anchor_kl = 0.0.
C5_AnchorFieldDefaults ==
    (out.op = "construct" /\ DOMAIN out.kw \cap AnchorFields = {})
      => /\ cfg.ema_alpha = 99
         /\ cfg.kl_threshold = 10
         /\ cfg.use_q_centering = TRUE
         /\ cfg.beta_anchor_kl = 0

C5_Witness ==
    /\ out.op = "construct"
    /\ DOMAIN out.kw = { "tau", "anchor_update_mode" }
    /\ cfg.anchor_update_mode = "ema"
    /\ cfg.ema_alpha = 99 /\ cfg.kl_threshold = 10
    /\ cfg.use_q_centering /\ cfg.beta_anchor_kl = 0

RewardFields == { "beta_reward", "drop_all_failed_prompts" }

\* C6: a configuration constructed with no keyword for the reward fields
\* has beta_reward = 0.5 and drop_all_failed_prompts = False.
C6_RewardFieldDefaults ==
    (out.op = "construct" /\ DOMAIN out.kw \cap RewardFields = {})
      => /\ cfg.beta_reward = 50
         /\ cfg.drop_all_failed_prompts = FALSE

C6_Witness ==
    /\ out.op = "construct"
    /\ DOMAIN out.kw = { "use_q_centering" }
    /\ cfg.beta_reward = 50 /\ ~ cfg.drop_all_failed_prompts

\* C7 as stated: every configuration carries use_adaptive_tau and the four
\* floats adaptive_tau_alpha, adaptive_tau_beta, adaptive_tau_min and
\* adaptive_tau_max.
C7_FourAdaptiveFloats ==
    pc = "ready" =>
      { "use_adaptive_tau", "adaptive_tau_alpha", "adaptive_tau_beta",
        "adaptive_tau_min", "adaptive_tau_max" } \subseteq DOMAIN cfg

\* C7 as amended: every configuration carries use_adaptive_tau and the two
\* floats adaptive_tau_alpha and adaptive_tau_min and no adaptive_tau_beta or
\* adaptive_tau_max; a constructed one holds the default (True, 0.5, 0.05) of
\* each of the three that was not given as a keyword.
C7_TwoAdaptiveFloats ==
    /\ pc = "ready" =>
         /\ { "use_adaptive_tau", "adaptive_tau_alpha", "adaptive_tau_min" }
              \subseteq DOMAIN cfg
         /\ DOMAIN cfg \cap UnknownNames = {}
    /\ out.op = "construct" =>
         /\ "use_adaptive_tau" \notin DOMAIN out.kw => cfg.use_adaptive_tau = TRUE
         /\ "adaptive_tau_alpha" \notin DOMAIN out.kw => cfg.adaptive_tau_alpha = 50
         /\ "adaptive_tau_min" \notin DOMAIN out.kw => cfg.adaptive_tau_min = 5

C7_Witness ==
    /\ out.op = "construct"
    /\ DOMAIN out.kw = { "adaptive_tau_min" }
    /\ cfg.use_adaptive_tau /\ cfg.adaptive_tau_alpha = 50
    /\ cfg.adaptive_tau_min = 200

\* C8: a step that reads the configuration changes no field, and a step
\* that assigns one field leaves every other field, ADPO or inherited, as
\* it was.
C8_ReadAssignFrame ==
    [][ /\ ( pc = "ready" /\ out'.op \in { "read", "AttributeError", "adaptive_tau" } )
             => cfg' = cfg
        /\ ( pc = "ready" /\ out'.op = "assign" )
             => /\ DOMAIN cfg' = DOMAIN cfg
                /\ \A g \in DOMAIN cfg \ { out'.field } : cfg'[g] = cfg[g] ]_vars

C8_Witness ==
    /\ out.op = "assign" /\ out.field = "tau" /\ out.value = -50
    /\ cfg.tau = -50
    /\ cfg.adaptive_tau_min = 200 /\ cfg.beta = 4 /\ cfg.ema_alpha = 99

\* Some numeric keyword lies outside the range its help text has in mind.
OutOfRange(kw) ==
    \/ "tau" \in DOMAIN kw /\ kw.tau <= 0
    \/ "ema_alpha" \in DOMAIN kw /\ (kw.ema_alpha < 0 \/ kw.ema_alpha > 100)
    \/ "kl_threshold" \in DOMAIN kw /\ kw.kl_threshold < 0
    \/ "beta_reward" \in DOMAIN kw /\ kw.beta_reward <= 0
    \/ "adaptive_tau_min" \in DOMAIN kw
         /\ kw.adaptive_tau_min >
              ( IF "tau" \in DOMAIN kw THEN kw.tau ELSE ADPODefaults.tau )

\* C9: construction with out-of-range numeric keywords raises nothing, and
\* every ADPO field is stored as supplied (or left at its own default),
\* whatever the other keywords are.
C9_NoRangeValidation ==
    ( KnownCall /\ OutOfRange(out.kw) ) =>
      /\ out.op = "construct" /\ pc = "ready"
      /\ \A f \in ADPOFieldNames \cap DOMAIN out.kw : cfg[f] = out.kw[f]
      /\ \A f \in ADPOFieldNames \ DOMAIN out.kw : cfg[f] = ADPODefaults[f]

C9_Witness ==
    /\ out.op = "construct"
    /\ { "tau", "ema_alpha", "kl_threshold", "beta_reward", "adaptive_tau_min" }
         \subseteq DOMAIN out.kw
    /\ cfg.tau = -50 /\ cfg.ema_alpha = 150 /\ cfg.kl_threshold = -10
    /\ cfg.beta_reward = 0 /\ cfg.adaptive_tau_min = 200

\* tau, adaptive_tau_alpha and adaptive_tau_min are at their defaults.
TauFieldsDefault ==
    /\ cfg.tau = ADPODefaults.tau
    /\ cfg.adaptive_tau_alpha = ADPODefaults.adaptive_tau_alpha
    /\ cfg.adaptive_tau_min = ADPODefaults.adaptive_tau_min

\* C10: with the default tau, adaptive_tau_alpha and adaptive_tau_min, at
\* every entropy ratio in [0,1] the formula tau * (1 - alpha * H/H_max) is
\* strictly positive, at most tau and at least adaptive_tau_min, so the
\* clamp leaves it unchanged; adaptive_tau_min < tau and 0 <= alpha < 1.
C10_DefaultAdaptiveTauConsistent ==
    ( out.op = "adaptive_tau" /\ TauFieldsDefault ) =>
      /\ out.raw > 0
      /\ out.raw <= cfg.tau * 100 * RatioSteps
      /\ out.raw >= AdaptiveTauFloor(cfg, RatioSteps)
      /\ out.clamped = out.raw
      /\ cfg.adaptive_tau_min < cfg.tau
      /\ 0 <= cfg.adaptive_tau_alpha /\ cfg.adaptive_tau_alpha < 100

C10_Witness ==
    /\ out.op = "adaptive_tau" /\ out.k = RatioSteps
    /\ TauFieldsDefault
    /\ out.raw = cfg.tau * 50 * RatioSteps
    /\ out.clamped = out.raw

====
